---- MODULE Spec2Model ----
(***************************************************************************)
(* The MSXVI strategy suite: forward simulator and objective               *)
(* (src/simulation/simulation.py, optimizer.py), configuration object      *)
(* (config.py), velocity optimizer and scenario runners (optimizer.py,     *)
(* scenarios.py, src/main.py) and the interactive menu (simulation/main.py).*)
(* Spec runs the direct callers of simulate and objective, SpecLast two    *)
(* runs that differ in the last timestep, SpecConfig the callers of        *)
(* update_param, SpecOptimize the optimizing runs, SpecMenu the menu loop. *)
(*                                                                         *)
(* Numbers.  The program computes in IEEE doubles; the model computes in   *)
(* fixed point on integers.  Velocities are whole m/s, angles whole        *)
(* degrees, irradiance whole W/m^2, dt whole seconds, distances whole      *)
(* metres.  Powers are held in centiwatts (cW) and energies in joules,     *)
(* each product rounded down where the scale is reduced.  Fractional       *)
(* vehicle parameters are held scaled (the scale is in the field comment). *)
(* Python index i of an array is index i+1 of the sequence modelling it.   *)
(***************************************************************************)
EXTENDS Integers, Sequences, FiniteSets, TLC

VARIABLES
  v,          \* velocity array handed to simulate / objective
  theta_deg,  \* road-angle array handed to simulate / objective
  ghi,        \* irradiance array handed to simulate / objective
  pc,         \* caller: "building" the arrays, arrays "ready", "simulated", "scored"
  call,       \* the scalar arguments of the last call (dt, d0, params, stop_on_empty)
  res,        \* what simulate returned or raised in the last call
  score,      \* what objective returned or raised in the last call
  prev,       \* res and score of the call before the last timestep was changed
  config,     \* the SimConfig object: attribute name -> value
  upd,        \* the last update_param call: its arguments, the object before, the outcome
  opt,        \* one run that optimizes a velocity profile and simulates it
  menu        \* main_menu: where its loop is, and the outcome of the last choice

\* the state of the configuration object and its callers
app == <<config, upd, opt, menu>>

\* the state outside the direct callers of simulate and objective
rest == <<prev, app>>

\* the state of the direct callers of simulate and objective
sim == <<v, theta_deg, ghi, pc, call, res, score, prev>>

vars == <<v, theta_deg, ghi, pc, call, res, score, rest>>

----------------------------------------------------------------------------
(* Bounds of the model *)

\* longest array the caller builds one timestep at a time
MaxN == 3
\* longest constant profile (np.full) the caller builds
MaxConstN == 10

\* per-timestep values of the arrays built one timestep at a time
StepV == {0, 12}
\* (road angle, irradiance) of such a timestep: flat and dark, flat and sunny, a climb
StepEnv == {<<0, 0>>, <<0, 1000>>, <<1, 0>>}
\* values of the constant profiles
ConstV == {-12, 0, 12, 15}
ConstTheta == {-1, 0, 1}
ConstGhi == {0, 800}
\* scalar arguments
DtSet == {60, 1800}
D0Set == {0, 100}

----------------------------------------------------------------------------
(* VehicleParams *)

\* bat_max_energy: float = 40 * 3.63 * 36 * 3600, in joules (= 40 * 363 * 36 * 36)
DefaultBatMaxEnergy == 18817920

VehicleParams ==
  [ mass           |-> 450,     \* kg
    drag_coeff     |-> 18,      \* 0.18   (x 1e-2)
    front_area     |-> 1357,    \* 1.357  (x 1e-3)
    C_RR           |-> 4,       \* 0.004  (x 1e-3)
    solar_area     |-> 4,       \* m^2
    panel_eff      |-> 243,     \* 0.243  (x 1e-3)
    bat_max_energy |-> DefaultBatMaxEnergy,
    air_density    |-> 1293,    \* 1.293  (x 1e-3)
    gravity_const  |-> 981,     \* 9.81   (x 1e-2)
    drive_eff      |-> 94 ]     \* 0.94   (x 1e-2)

\* battery capacities of the parameter sets passed in: the default pack, and a
\* small pack that a few timesteps can drain
BatSet == {2000000, DefaultBatMaxEnergy}

ParamsSet == { [VehicleParams EXCEPT !.bat_max_energy = c] : c \in BatSet }

----------------------------------------------------------------------------
(* numpy helpers *)

Max(a, b) == IF a >= b THEN a ELSE b
Min(a, b) == IF a <= b THEN a ELSE b

\* a clip that forgets the lower limit
clip_upper_only(x, lo, hi) == Min(x, hi)

\* np.clip(x, lo, hi) = minimum(maximum(x, lo), hi)
clip(x, lo, hi) == Min(Max(x, lo), hi)

RECURSIVE PartialSum(_, _)
PartialSum(s, i) == IF i = 0 THEN 0 ELSE PartialSum(s, i - 1) + s[i]

\* np.cumsum(s)
cumsum(s) == [i \in 1..Len(s) |-> PartialSum(s, i)]

\* s[:-1]
AllButLast(s) == IF Len(s) = 0 THEN << >> ELSE SubSeq(s, 1, Len(s) - 1)

\* Length of the elementwise combination of arrays of lengths m and n under
\* numpy broadcasting; -1 when the shapes cannot be broadcast (ValueError).
Broadcast(m, n) ==
  IF m = -1 \/ n = -1 THEN -1
  ELSE IF m = n THEN m
  ELSE IF m = 1 THEN n
  ELSE IF n = 1 THEN m
  ELSE -1

\* Element i of s in an elementwise operation: a length-1 array is stretched.
At(s, i) == IF Len(s) = 1 THEN s[1] ELSE s[i]

\* np.sin(np.deg2rad(theta)), x 1e-4, for the angles the model uses
sin_deg(theta) ==
  CASE theta = -1 -> -175
    [] theta = 0  -> 0
    [] theta = 1  -> 175

----------------------------------------------------------------------------
(* Power model, per element, in cW *)

\* (M * g * C_RR) * v
rolling_power(x, M, g, C_RR) == (M * g * C_RR * x) \div 1000

\* 0.5 * rho * Cd * A * v**3
drag_power(x, rho, Cd, A) == (((rho * Cd * A) \div 2000) * (x * x * x)) \div 1000

\* a grade power that forgets the velocity factor: M * g * np.sin(theta_rad)
grade_force(x, theta, M, g) == (M * g * sin_deg(theta)) \div 10000

\* M * g * np.sin(theta_rad) * v
grade_power(x, theta, M, g) == (M * g * sin_deg(theta) * x) \div 10000

\* A_solar * panel_eff * G_wm2
solar_power(G, A_solar, panel_eff) == (A_solar * panel_eff * G) \div 10

\* P / max(p.drive_eff, 1e-9); the floor 1e-9 is below the model's resolution
drive(P, p) == (P * 100) \div Max(p.drive_eff, 1)

----------------------------------------------------------------------------
(* simulate *)

\* a distance timeline without the running sum: d[1:] = d0 + v[:-1] * dt
distance_timeline_no_cumsum(vv, dt, d0) ==
  [i \in 1..Len(vv) |-> IF i = 1 THEN d0 ELSE d0 + vv[i - 1] * dt]

\* a distance timeline that counts the current timestep: d = d0 + np.cumsum(v * dt)
distance_timeline_inclusive(vv, dt, d0) ==
  LET cs == cumsum([i \in 1..Len(vv) |-> vv[i] * dt])
  IN  [i \in 1..Len(vv) |-> d0 + cs[i]]

\* a distance timeline integrated by the trapezoid rule:
\* d[i] = d[i-1] + (v[i-1] + v[i]) / 2 * dt
distance_timeline_trapezoid(vv, dt, d0) ==
  LET N  == Len(vv)
      cs == cumsum([i \in 1..(N - 1) |-> ((vv[i] + vv[i + 1]) * dt) \div 2])
  IN  [i \in 1..N |-> IF i = 1 THEN d0 ELSE d0 + cs[i - 1]]

\* Distance timeline (Euler): d[0] = d0; d[1:] = d0 + np.cumsum(v[:-1] * dt)
distance_timeline(vv, dt, d0) ==
  LET N  == Len(vv)
      cs == cumsum([i \in 1..(N - 1) |-> AllButLast(vv)[i] * dt])
  IN  [i \in 1..N |-> IF i = 1 THEN d0 ELSE d0 + cs[i - 1]]

\* a net power that keeps a negative grade power (regeneration on a descent)
net_power_regen(P_rr, P_drag, P_grade_raw, P_solar, p) ==
  (drive(P_rr, p) + drive(P_drag, p) + drive(P_grade_raw, p)) - P_solar

\* P_net = (P_rr_drive + P_drag_drive + P_grade_loss_pos) - P_solar, one element
net_power(P_rr, P_drag, P_grade_raw, P_solar, p) ==
  (drive(P_rr, p) + drive(P_drag, p) + drive(Max(P_grade_raw, 0), p)) - P_solar

\* E = P * dt, from cW to joules
energy(P, dt) == (P * dt) \div 100

\* a battery timeline that counts the current timestep:
\* Ebat = np.clip(cap - np.cumsum(E_net), 0.0, cap)
battery_timeline_inclusive(E_net, N, cap) ==
  [i \in 1..N |-> clip(cap - PartialSum(E_net, Min(i, Len(E_net))), 0, cap)]

\* Battery integration: Ebat[0] = cap;
\* Ebat[1:] = np.clip(Ebat[0] - np.cumsum(E_net[:-1]), 0.0, cap)
battery_timeline(E_net, N, cap) ==
  LET cs == cumsum(AllButLast(E_net))
  IN  [i \in 1..N |-> IF i = 1 THEN cap ELSE clip(cap - cs[i - 1], 0, cap)]

\* np.argmax(Ebat <= 0.0): Python index of the first True, 0 if there is none
empty_index(Ebat) ==
  LET hits == {i \in 1..Len(Ebat) : Ebat[i] <= 0}
  IN  IF hits = {} THEN 0
      ELSE (CHOOSE i \in hits : \A j \in hits : i <= j) - 1

\* a freeze that starts one sample late: d[empty_idx+1:] = d[empty_idx+1]
freeze_one_late(d, Ebat, stop_on_empty) ==
  LET empty_idx == empty_index(Ebat)
  IN  IF stop_on_empty /\ Ebat[Len(Ebat)] <= 0 /\ empty_idx > 0
      THEN [i \in 1..Len(d) |->
              IF i >= empty_idx + 2 THEN d[Min(empty_idx + 2, Len(d))] ELSE d[i]]
      ELSE d

\* a freeze that does not look at the final sample
freeze_once_empty(d, Ebat, stop_on_empty) ==
  LET empty_idx == empty_index(Ebat)
  IN  IF stop_on_empty /\ empty_idx > 0
      THEN [i \in 1..Len(d) |-> IF i >= empty_idx + 1 THEN d[empty_idx + 1] ELSE d[i]]
      ELSE d

\* if stop_on_empty: if Ebat[-1] <= 0.0 and empty_idx > 0: d[empty_idx:] = d[empty_idx]
freeze(d, Ebat, stop_on_empty) ==
  LET empty_idx == empty_index(Ebat)
  IN  IF stop_on_empty /\ Ebat[Len(Ebat)] <= 0 /\ empty_idx > 0
      THEN [i \in 1..Len(d) |-> IF i >= empty_idx + 1 THEN d[empty_idx + 1] ELSE d[i]]
      ELSE d

Raised(exc) == [status |-> "raised", exc |-> exc]

simulate(vv, dt, d0, th, gh, p, stop_on_empty) ==
  LET N == Len(vv)
      G == Broadcast(N, Len(th))                 \* shape of P_grade_raw
      K == Broadcast(Broadcast(N, G), Len(gh))   \* shape of P_net
  IN
  IF N = 0 THEN Raised("IndexError")             \* d[0] = d0 on an empty array
  ELSE IF G = -1 THEN Raised("ValueError")       \* grade_power: shapes do not broadcast
  ELSE IF K = -1 THEN Raised("ValueError")       \* P_net: shapes do not broadcast
  ELSE
  LET d0s   == distance_timeline(vv, dt, d0)
      P_rr  == [i \in 1..N |-> rolling_power(vv[i], p.mass, p.gravity_const, p.C_RR)]
      P_drag == [i \in 1..N |-> drag_power(vv[i], p.air_density, p.drag_coeff, p.front_area)]
      P_grade_raw == [i \in 1..G |->
                        grade_power(At(vv, i), At(th, i), p.mass, p.gravity_const)]
      P_solar == [i \in 1..Len(gh) |-> solar_power(gh[i], p.solar_area, p.panel_eff)]
      P_net == [i \in 1..K |->
                  net_power(At(P_rr, i), At(P_drag, i), At(P_grade_raw, i),
                            At(P_solar, i), p)]
      E_net == [i \in 1..K |-> energy(P_net[i], dt)]
      Ebat  == battery_timeline(E_net, N, p.bat_max_energy)
      d     == freeze(d0s, Ebat, stop_on_empty)
  IN  [ status           |-> "returned",
        final_distance_m |-> d[N],
        final_soc_J      |-> Ebat[N],
        traces |-> [ distance_m |-> d,
                     Ebat_J     |-> Ebat,
                     P_rr_W     |-> P_rr,
                     P_drag_W   |-> P_drag,
                     P_grade_W  |-> P_grade_raw,
                     P_solar_W  |-> P_solar,
                     P_net_W    |-> P_net,
                     E_net_J    |-> E_net ] ]

----------------------------------------------------------------------------
(* objective *)

\* score += 1e8 when the battery ran out
EmptyPenalty == 100000000
\* score += deficit * 100
ReserveWeight == 100

\* min_reserve = 0.1 * params.bat_max_energy
min_reserve(p) == p.bat_max_energy \div 10

\* an objective whose empty-battery test is strict: final_soc_J < 0
objective_strict_empty(vs, dt, d0, th, gh, p) ==
  LET r == simulate(vs, dt, d0, th, gh, p, TRUE)
  IN  IF r.status = "raised" THEN r
      ELSE
      LET score0 == 0 - r.final_distance_m
          score1 == IF r.final_soc_J < 0 THEN score0 + EmptyPenalty ELSE score0
          score2 == IF r.final_soc_J < min_reserve(p)
                    THEN score1 + (min_reserve(p) - r.final_soc_J) * ReserveWeight
                    ELSE score1
      IN  [status |-> "returned", value |-> score2]

objective(vs, dt, d0, th, gh, p) ==
  LET r == simulate(vs, dt, d0, th, gh, p, TRUE)
  IN  IF r.status = "raised" THEN r
      ELSE
      LET score0 == 0 - r.final_distance_m
          score1 == IF r.final_soc_J <= 0 THEN score0 + EmptyPenalty ELSE score0
          score2 == IF r.final_soc_J < min_reserve(p)
                    THEN score1 + (min_reserve(p) - r.final_soc_J) * ReserveWeight
                    ELSE score1
      IN  [status |-> "returned", value |-> score2]

----------------------------------------------------------------------------
(* SimConfig (src/simulation/config.py)                                    *)
(* A Python value is a record of its runtime type, its number (floats in   *)
(* tenths, bools as 0/1) and its text (a sequence of characters).          *)

FloatValue(n)  == [type |-> "float", num |-> n, text |-> << >>]
IntValue(n)    == [type |-> "int", num |-> n, text |-> << >>]
BoolValue(b)   == [type |-> "bool", num |-> IF b THEN 1 ELSE 0, text |-> << >>]
StrValue(t)    == [type |-> "str", num |-> 0, text |-> t]
NoneValue == [type |-> "NoneType", num |-> 0, text |-> << >>]
\* a bound method of the object (display, update_param)
Method    == [type |-> "method", num |-> 0, text |-> << >>]

\* method: str = "Powell"
PowellText == <<"P", "o", "w", "e", "l", "l">>
\* gpx_file: str = "0_FullBaseRoute.gpx"
GpxText == <<"0", "_", "F", "u", "l", "l", "B", "a", "s", "e", "R", "o", "u", "t", "e",
             ".", "g", "p", "x">>

\* the dataclass fields, in declaration order
ParamNames == {"dt", "vmin", "vmax", "method", "max_iter", "energy_penalty",
               "use_solcast", "solcast_api_key", "gpx_file"}

\* SimConfig(): the fields at their defaults and the two methods of the class.
\* vmax: float = 15 is the int 15 at run time (annotations do not convert).
SimConfig ==
  [ dt              |-> FloatValue(18000),
    vmin            |-> FloatValue(100),
    vmax            |-> IntValue(15),
    method          |-> StrValue(PowellText),
    max_iter        |-> IntValue(2000),
    energy_penalty  |-> FloatValue(0),
    use_solcast     |-> BoolValue(FALSE),
    solcast_api_key |-> NoneValue,
    gpx_file        |-> StrValue(GpxText),
    display         |-> Method,
    update_param    |-> Method ]

Digits == {"0", "1", "2", "3", "4", "5", "6", "7", "8", "9"}

DigitValue(c) ==
  CASE c = "0" -> 0 [] c = "1" -> 1 [] c = "2" -> 2 [] c = "3" -> 3 [] c = "4" -> 4
    [] c = "5" -> 5 [] c = "6" -> 6 [] c = "7" -> 7 [] c = "8" -> 8 [] c = "9" -> 9

AllDigits(t) == Len(t) >= 1 /\ \A i \in 1..Len(t) : t[i] \in Digits

RECURSIVE Decimal(_, _)
\* the number written by the first n characters of a digit string
Decimal(t, n) == IF n = 0 THEN 0 ELSE Decimal(t, n - 1) * 10 + DigitValue(t[n])

\* int(value) accepts a digit string (texts here carry no sign, blank or underscore)
IntText(t) == AllDigits(t)
int(t) == Decimal(t, Len(t))

\* position of the decimal point, 0 if there is none
PointAt(t) ==
  LET ps == {i \in 1..Len(t) : t[i] = "."}
  IN  IF ps = {} THEN 0 ELSE CHOOSE i \in ps : \A j \in ps : i <= j

\* float(value) accepts digits, or digits "." digit (texts here carry one
\* fractional digit at most, no exponent, no inf/nan)
FloatText(t) ==
  LET k == PointAt(t)
  IN  IF k = 0 THEN AllDigits(t)
      ELSE /\ k >= 2 /\ Len(t) = k + 1
           /\ AllDigits(SubSeq(t, 1, k - 1))
           /\ t[k + 1] \in Digits

\* float(value), in tenths
float(t) ==
  LET k == PointAt(t)
  IN  IF k = 0 THEN Decimal(t, Len(t)) * 10
      ELSE Decimal(t, k - 1) * 10 + DigitValue(t[k + 1])

\* str.lower(), on the capital letters the texts use
LowerChar(c) ==
  CASE c = "Y" -> "y" [] c = "T" -> "t" [] c = "N" -> "n" [] OTHER -> c

lower(t) == [i \in 1..Len(t) |-> LowerChar(t[i])]

\* ('true', '1', 'yes', 'y')
TrueTexts == { <<"t", "r", "u", "e">>, <<"1">>, <<"y", "e", "s">>, <<"y">> }

\* SimConfig.update_param(param_name, value) for a str value: what it returns
\* and the object afterwards.  hasattr holds for every attribute of the
\* object, fields and methods alike; int() and float() raise ValueError on a
\* text they do not accept, which the except clause turns into False.
update_param(self, param_name, value) ==
  IF param_name \in DOMAIN self                               \* hasattr
  THEN LET current_val == self[param_name]                     \* getattr
       IN  IF current_val.type = "bool"
           THEN [ret |-> "True",
                 config |-> [self EXCEPT ![param_name] = BoolValue(lower(value) \in TrueTexts)]]
           ELSE IF current_val.type = "int"
           THEN IF IntText(value)
                THEN [ret |-> "True", config |-> [self EXCEPT ![param_name] = IntValue(int(value))]]
                ELSE [ret |-> "False", config |-> self]        \* ValueError
           ELSE IF current_val.type = "float"
           THEN IF FloatText(value)
                THEN [ret |-> "True",
                      config |-> [self EXCEPT ![param_name] = FloatValue(float(value))]]
                ELSE [ret |-> "False", config |-> self]        \* ValueError
           ELSE [ret |-> "True", config |-> [self EXCEPT ![param_name] = StrValue(value)]]
  ELSE [ret |-> "False", config |-> self]

----------------------------------------------------------------------------
(* The callers: they build the arrays, then call simulate or objective *)

None == [status |-> "none"]

Aligned == Len(v) = Len(theta_deg) /\ Len(v) = Len(ghi)

Init ==
  /\ v = << >>
  /\ theta_deg = << >>
  /\ ghi = << >>
  /\ pc = "building"
  /\ call = None
  /\ res = None
  /\ score = None
  /\ prev = None
  /\ config = SimConfig
  /\ upd = None
  /\ opt = None
  /\ menu = [at |-> "prompt", last |-> "none", before |-> SimConfig, failures |-> 0]

\* The caller appends one timestep to the three arrays.
PushStep ==
  /\ pc = "building"
  /\ Aligned
  /\ Len(v) < MaxN
  /\ \E x \in StepV, e \in StepEnv :
       /\ v' = Append(v, x)
       /\ theta_deg' = Append(theta_deg, e[1])
       /\ ghi' = Append(ghi, e[2])
  /\ UNCHANGED <<pc, call, res, score>>
  /\ UNCHANGED rest

\* The caller builds constant profiles: np.full(N, x).
ConstProfile ==
  /\ pc = "building"
  /\ v = << >> /\ theta_deg = << >> /\ ghi = << >>
  /\ \E n \in 1..MaxConstN, x \in ConstV, t \in ConstTheta, g \in ConstGhi :
       /\ v' = [i \in 1..n |-> x]
       /\ theta_deg' = [i \in 1..n |-> t]
       /\ ghi' = [i \in 1..n |-> g]
  /\ pc' = "ready"
  /\ UNCHANGED <<call, res, score>>
  /\ UNCHANGED rest

\* The caller hands over one array shorter than the other two.
Misalign ==
  /\ pc \in {"building", "ready"}
  /\ Aligned
  /\ \E k \in 0..(Len(v) - 1) :
       \/ v' = SubSeq(v, 1, k) /\ UNCHANGED <<theta_deg, ghi>>
       \/ theta_deg' = SubSeq(theta_deg, 1, k) /\ UNCHANGED <<v, ghi>>
       \/ ghi' = SubSeq(ghi, 1, k) /\ UNCHANGED <<v, theta_deg>>
  /\ pc' = "ready"
  /\ UNCHANGED <<call, res, score>>
  /\ UNCHANGED rest

CallSimulate ==
  /\ pc \in {"building", "ready"}
  /\ \E dt \in DtSet, d0 \in D0Set, p \in ParamsSet, stop_on_empty \in BOOLEAN :
       /\ call' = [dt |-> dt, d0 |-> d0, params |-> p, stop_on_empty |-> stop_on_empty]
       /\ res' = simulate(v, dt, d0, theta_deg, ghi, p, stop_on_empty)
  /\ pc' = "simulated"
  /\ UNCHANGED <<v, theta_deg, ghi, score>>
  /\ UNCHANGED rest

\* objective runs simulate with the default stop_on_empty and keeps its result in res
CallObjective ==
  /\ pc \in {"building", "ready"}
  /\ \E dt \in DtSet, d0 \in D0Set, p \in ParamsSet :
       /\ call' = [dt |-> dt, d0 |-> d0, params |-> p, stop_on_empty |-> TRUE]
       /\ res' = simulate(v, dt, d0, theta_deg, ghi, p, TRUE)
       /\ score' = objective(v, dt, d0, theta_deg, ghi, p)
  /\ pc' = "scored"
  /\ UNCHANGED <<v, theta_deg, ghi>>
  /\ UNCHANGED rest

Next ==
  \/ PushStep
  \/ ConstProfile
  \/ Misalign
  \/ CallSimulate
  \/ CallObjective

Spec == Init /\ [][Next]_vars

----------------------------------------------------------------------------
(* Two runs that differ only in the last timestep *)

\* After a call the caller changes the inputs of the last timestep only and
\* repeats the call with the same scalar arguments; prev keeps the first result.
ChangeLastStep ==
  /\ pc \in {"simulated", "scored"}
  /\ prev = None
  /\ Aligned
  /\ Len(v) >= 2
  /\ \E x \in StepV, e \in StepEnv :
       LET N  == Len(v)
           v2 == [v EXCEPT ![N] = x]
           t2 == [theta_deg EXCEPT ![N] = e[1]]
           g2 == [ghi EXCEPT ![N] = e[2]]
       IN  /\ <<v2, t2, g2>> # <<v, theta_deg, ghi>>
           /\ v' = v2
           /\ theta_deg' = t2
           /\ ghi' = g2
           /\ prev' = [res |-> res, score |-> score]
           /\ res' = simulate(v2, call.dt, call.d0, t2, g2, call.params,
                              call.stop_on_empty)
           /\ score' = IF pc = "scored"
                       THEN objective(v2, call.dt, call.d0, t2, g2, call.params)
                       ELSE score
  /\ UNCHANGED <<pc, call>>
  /\ UNCHANGED app

NextLast ==
  \/ PushStep
  \/ CallSimulate
  \/ CallObjective
  \/ ChangeLastStep

SpecLast == Init /\ [][NextLast]_vars

----------------------------------------------------------------------------
(* Callers of SimConfig.update_param *)

\* most update_param calls in one run of the model
MaxUpdates == 2

\* attribute names handed to update_param: the fields, the two methods, and
\* a name the object does not have
Names == ParamNames \cup {"display", "update_param", "speed"}

\* value texts handed to update_param
Texts == { <<"1", "7", ".", "5">>, <<"1", "7">>, <<"a", "b", "c">>,
           <<"t", "r", "u", "e">>, <<"Y">> }

UpdateParam ==
  /\ IF upd = None THEN TRUE ELSE upd.n < MaxUpdates
  /\ \E param_name \in Names, value \in Texts :
       LET r == update_param(config, param_name, value)
       IN  /\ config' = r.config
           /\ upd' = [ status |-> "called", param_name |-> param_name, value |-> value,
                       before |-> config, ret |-> r.ret,
                       n |-> IF upd = None THEN 1 ELSE upd.n + 1 ]
  /\ UNCHANGED <<sim, opt, menu>>

NextConfig == UpdateParam

SpecConfig == Init /\ [][NextConfig]_vars

----------------------------------------------------------------------------
(* OptimizeConfig and optimize_velocity (src/simulation/optimizer.py)      *)

\* method names, as texts
NelderMeadText == <<"N", "e", "l", "d", "e", "r", "-", "M", "e", "a", "d">>
LBFGSBText == <<"L", "-", "B", "F", "G", "S", "-", "B">>

\* the fields of the dataclass OptimizeConfig and their defaults
OptimizeConfigDefaults ==
  [ dt |-> 10, horizon |-> 600, d0 |-> 0, vmin |-> 10, vmax |-> 20,
    method |-> NelderMeadText, max_iter |-> 2000 ]

\* OptimizeConfig(**kwargs): the generated __init__ raises TypeError on a
\* keyword that is not a field
OptimizeConfig(kwargs) ==
  IF DOMAIN kwargs \subseteq DOMAIN OptimizeConfigDefaults
  THEN [ status |-> "returned",
         cfg |-> [f \in DOMAIN OptimizeConfigDefaults |->
                    IF f \in DOMAIN kwargs THEN kwargs[f] ELSE OptimizeConfigDefaults[f]] ]
  ELSE Raised("TypeError")

\* no bounds are handed to the minimizer
NoBounds == << >>

\* a bounds argument that is never handed over
bounds_arg_none(cfg, N) == NoBounds

\* bounds = [(cfg.vmin, cfg.vmax)] * N; bounds if cfg.method != "Nelder-Mead" else None
bounds_arg(cfg, N) ==
  IF cfg.method # NelderMeadText THEN [i \in 1..N |-> <<cfg.vmin, cfg.vmax>>] ELSE NoBounds

\* velocities the minimizer may try for one timestep
TrialV == {5, 10, 15, 20, 25}

\* the points the minimizer may visit: any point without bounds, the points
\* within the bounds when bounds are handed over
TrialPoints(N, bounds) ==
  { x \in [1..N -> TrialV] :
      bounds # NoBounds => \A i \in 1..N : bounds[i][1] <= x[i] /\ x[i] <= bounds[i][2] }

\* lines 79-84 with a failure that is fatal
optimize_return_strict(result) ==
  IF result.success
  THEN [status |-> "returned", best_vs |-> result.x, best_obj |-> result.fun, warned |-> FALSE]
  ELSE Raised("RuntimeError")

\* lines 79-84: if not result.success: print("Warning: ..."); return result.x, result.fun
optimize_return(result) ==
  [ status |-> "returned", best_vs |-> result.x, best_obj |-> result.fun,
    warned |-> ~result.success ]

----------------------------------------------------------------------------
(* The runs: src/main.py, run_test_scenario, run_raceday_scenario          *)

\* most timesteps of a route
MaxRouteN == 2
\* largest max_iter
MaxIter == 2

\* routes: the same (road angle, irradiance) at each of 1..MaxRouteN timesteps
Routes == { [i \in 1..n |-> e] : n \in 1..MaxRouteN, e \in StepEnv }

\* np.linspace(700, 900, N)
linspace_700_900(N) ==
  [i \in 1..N |-> IF N = 1 THEN 700 ELSE 700 + (200 * (i - 1)) \div (N - 1)]

Methods == {NelderMeadText, PowellText, LBFGSBText}

Scenarios == {"run_test_scenario", "run_raceday_scenario"}

\* a run that has loaded its data
Run(caller, dt, d0, p) ==
  [ at |-> "loaded", caller |-> caller, dt |-> dt, d0 |-> d0, params |-> p,
    cfg |-> OptimizeConfigDefaults, bounds |-> NoBounds, N |-> 0,
    x |-> << >>, fun |-> 0, iters |-> 0, calls |-> 0,
    result |-> None, best |-> None, exc |-> "" ]

\* the arguments run_test_scenario and run_raceday_scenario give to OptimizeConfig
ScenarioKwargs(dt, horizon, d0) ==
  [ dt |-> dt, horizon |-> horizon, d0 |-> d0,
    vmin |-> config.vmin.num \div 10, vmax |-> config.vmax.num,
    method |-> config.method.text, max_iter |-> config.max_iter.num,
    energy_penalty |-> config.energy_penalty.num ]

\* src/main.py:19-38, for any OptimizeConfig of its fields: load the route,
\* horizon = N * dt, build the configuration
LoadDirect ==
  /\ opt = None
  /\ \E route \in Routes, dt \in DtSet, p \in ParamsSet, method \in Methods,
        max_iter \in 1..MaxIter :
       LET r == OptimizeConfig([ dt |-> dt, horizon |-> Len(route) * dt,
                                 vmin |-> 10, vmax |-> 20,
                                 method |-> method, max_iter |-> max_iter ])
       IN  /\ theta_deg' = [i \in 1..Len(route) |-> route[i][1]]
           /\ ghi' = [i \in 1..Len(route) |-> route[i][2]]
           /\ opt' = [Run("main", dt, 0, p) EXCEPT !.at = "configured", !.cfg = r.cfg]
  /\ UNCHANGED <<v, pc, call, res, score, prev, config, upd, menu>>

\* run_test_scenario, lines 30-38: load_mock_yaml, dt, d0, N_steps, horizon, params
LoadTestScenario ==
  /\ opt = None
  /\ \E route \in Routes, dt \in DtSet, d0 \in D0Set :
       /\ theta_deg' = [i \in 1..Len(route) |-> route[i][1]]
       /\ ghi' = [i \in 1..Len(route) |-> route[i][2]]
       /\ opt' = Run("run_test_scenario", dt, d0, VehicleParams)
  /\ UNCHANGED <<v, pc, call, res, score, prev, config, upd, menu>>

\* run_raceday_scenario, lines 77-105: FileNotFoundError when the GPX file is
\* missing, else the route of the file and ghi = np.linspace(700, 900, N_gps)
LoadRaceday ==
  /\ opt = None
  /\ \E exists \in BOOLEAN, route \in Routes :
       LET dt == config.dt.num \div 10
       IN  IF exists
           THEN /\ theta_deg' = [i \in 1..Len(route) |-> route[i][1]]
                /\ ghi' = linspace_700_900(Len(route))
                /\ opt' = Run("run_raceday_scenario", dt, 0, VehicleParams)
           ELSE /\ UNCHANGED <<theta_deg, ghi>>
                /\ opt' = [Run("run_raceday_scenario", dt, 0, VehicleParams)
                             EXCEPT !.at = "raised", !.exc = "FileNotFoundError"]
  /\ UNCHANGED <<v, pc, call, res, score, prev, config, upd, menu>>

\* run_test_scenario 41-50, run_raceday_scenario 107-116: opt_cfg = OptimizeConfig(...)
BuildScenarioConfig ==
  /\ opt # None
  /\ opt.at = "loaded"
  /\ LET r == OptimizeConfig(ScenarioKwargs(opt.dt, Len(theta_deg) * opt.dt, opt.d0))
     IN  opt' = IF r.status = "raised"
                THEN [opt EXCEPT !.at = "raised", !.exc = r.exc]
                ELSE [opt EXCEPT !.at = "configured", !.cfg = r.cfg]
  /\ UNCHANGED <<sim, config, upd, menu>>

\* optimize_velocity, lines 66-78: N, vs0, bounds, and the minimizer's first
\* evaluation of the objective at vs0
StartMinimize ==
  /\ opt # None
  /\ opt.at = "configured"
  /\ LET cfg == opt.cfg
         N   == cfg.horizon \div cfg.dt
         vs0 == [i \in 1..N |-> (cfg.vmin + cfg.vmax) \div 2]
         f0  == objective(vs0, cfg.dt, cfg.d0, theta_deg, ghi, opt.params)
     IN  opt' = IF f0.status = "raised"
                THEN [opt EXCEPT !.at = "raised", !.exc = f0.exc, !.calls = @ + 1]
                ELSE [opt EXCEPT !.at = "minimizing", !.N = N, !.bounds = bounds_arg(cfg, N),
                                 !.x = vs0, !.fun = f0.value, !.calls = @ + 1]
  /\ UNCHANGED <<sim, config, upd, menu>>

\* one iteration of the minimizer: it moves to a point with a lower objective,
\* or finds none
Iterate ==
  /\ opt # None
  /\ opt.at = "minimizing"
  /\ opt.iters < opt.cfg.max_iter
  /\ \/ \E x \in TrialPoints(opt.N, opt.bounds) :
          LET f == objective(x, opt.cfg.dt, opt.cfg.d0, theta_deg, ghi, opt.params)
          IN  /\ f.value < opt.fun
              /\ opt' = [opt EXCEPT !.x = x, !.fun = f.value, !.iters = @ + 1]
     \/ opt' = [opt EXCEPT !.iters = @ + 1]
  /\ UNCHANGED <<sim, config, upd, menu>>

\* the minimizer stops: converged, or out of iterations without convergence;
\* optimize_velocity finishes (lines 79-84)
FinishOptimize ==
  /\ opt # None
  /\ opt.at = "minimizing"
  /\ \E success \in BOOLEAN :
       /\ ~success => opt.iters >= opt.cfg.max_iter
       /\ LET result == [x |-> opt.x, fun |-> opt.fun, success |-> success]
              r      == optimize_return(result)
          IN  opt' = IF r.status = "raised"
                     THEN [opt EXCEPT !.at = "raised", !.exc = r.exc, !.result = result]
                     ELSE [opt EXCEPT !.at = "optimized", !.result = result, !.best = r]
  /\ UNCHANGED <<sim, config, upd, menu>>

\* res = simulate(best_vs, dt, d0, theta_deg, ghi, params)
FinalSimulate ==
  /\ opt # None
  /\ opt.at = "optimized"
  /\ v' = opt.best.best_vs
  /\ call' = [dt |-> opt.dt, d0 |-> opt.d0, params |-> opt.params, stop_on_empty |-> TRUE]
  /\ res' = simulate(opt.best.best_vs, opt.dt, opt.d0, theta_deg, ghi, opt.params, TRUE)
  /\ pc' = "simulated"
  /\ opt' = [opt EXCEPT !.at = "simulated"]
  /\ UNCHANGED <<theta_deg, ghi, score, prev, config, upd, menu>>

\* the results are printed and the run returns res
ReturnResult ==
  /\ opt # None
  /\ opt.at = "simulated"
  /\ opt' = [opt EXCEPT !.at = "returned"]
  /\ UNCHANGED <<sim, config, upd, menu>>

NextOptimize ==
  \/ LoadDirect
  \/ LoadTestScenario
  \/ LoadRaceday
  \/ BuildScenarioConfig
  \/ StartMinimize
  \/ Iterate
  \/ FinishOptimize
  \/ FinalSimulate
  \/ ReturnResult

SpecOptimize == Init /\ [][NextOptimize]_vars

----------------------------------------------------------------------------
(* main_menu and configure_menu (src/simulation/main.py).  input() always  *)
(* returns a line; an interrupt (KeyboardInterrupt) may come at any point. *)

\* the count of failed scenario runs saturates here
MaxFailures == 2
\* most parameter updates made through configure_menu in one run of the model
MaxMenuUpdates == 1

\* param_map of configure_menu
param_map ==
  [k \in 1..8 |->
     CASE k = 1 -> "dt" [] k = 2 -> "vmin" [] k = 3 -> "vmax" [] k = 4 -> "method"
       [] k = 5 -> "max_iter" [] k = 6 -> "energy_penalty" [] k = 7 -> "use_solcast"
       [] k = 8 -> "gpx_file"]

\* os.environ.get("SOLCAST_API_KEY"): unset (None), or a key
EnvKeys == {NoneValue, StrValue(<<"k", "e", "y">>)}

\* bool(x) of a value: None, False, 0 and "" are false
Truthy(x) ==
  CASE x.type = "NoneType" -> FALSE
    [] x.type = "str" -> x.text # << >>
    [] x.type = "method" -> TRUE
    [] OTHER -> x.num # 0

AtPrompt == menu.at = "prompt" /\ opt = None

\* choice == 'q': sys.exit(0)
Quit ==
  /\ AtPrompt
  /\ menu' = [menu EXCEPT !.at = "exited", !.last = "quit"]
  /\ UNCHANGED <<sim, config, upd, opt>>

\* KeyboardInterrupt: no handler in the loop catches it, __main__ exits
Interrupt ==
  /\ menu.at # "exited"
  /\ menu' = [menu EXCEPT !.at = "exited", !.last = "interrupt"]
  /\ opt' = None
  /\ UNCHANGED <<sim, config, upd>>

\* any other choice: print("Invalid choice.")
InvalidChoice ==
  /\ AtPrompt
  /\ menu' = [menu EXCEPT !.last = "invalid"]
  /\ UNCHANGED <<sim, config, upd, opt>>

\* choice == '1': configure_menu(config)
EnterConfigure ==
  /\ AtPrompt
  /\ menu' = [menu EXCEPT !.at = "configure", !.last = "configure"]
  /\ UNCHANGED <<sim, config, upd, opt>>

\* configure_menu, a digit of param_map: config.update_param(param_name, new_val)
ConfigureUpdate ==
  /\ menu.at = "configure"
  /\ IF upd = None THEN TRUE ELSE upd.n < MaxMenuUpdates
  /\ \E k \in DOMAIN param_map, value \in Texts :
       LET r == update_param(config, param_map[k], value)
       IN  /\ config' = r.config
           /\ upd' = [ status |-> "called", param_name |-> param_map[k], value |-> value,
                       before |-> config, ret |-> r.ret,
                       n |-> IF upd = None THEN 1 ELSE upd.n + 1 ]
  /\ UNCHANGED <<sim, opt, menu>>

\* configure_menu, choice == 'r': return
ConfigureReturn ==
  /\ menu.at = "configure"
  /\ menu' = [menu EXCEPT !.at = "prompt"]
  /\ UNCHANGED <<sim, config, upd, opt>>

\* configure_menu, choice == 'q': sys.exit(0)
ConfigureQuit ==
  /\ menu.at = "configure"
  /\ menu' = [menu EXCEPT !.at = "exited", !.last = "quit"]
  /\ UNCHANGED <<sim, config, upd, opt>>

\* choice == '2' without a run: no YAML file, or an invalid selection
NoTestRun ==
  /\ AtPrompt
  /\ menu' = [menu EXCEPT !.last = "no run"]
  /\ UNCHANGED <<sim, config, upd, opt>>

\* choice == '2' with a valid selection: the try block is entered
ChooseTest ==
  /\ AtPrompt
  /\ menu' = [menu EXCEPT !.at = "test", !.last = "running", !.before = config]
  /\ UNCHANGED <<sim, config, upd, opt>>

\* choice == '3': the try block is entered; with Solcast enabled and no key
\* configured the key is taken from the environment, if it is set there
ChooseRaceday ==
  /\ AtPrompt
  /\ menu' = [menu EXCEPT !.at = "raceday", !.last = "running", !.before = config]
  /\ \E api_key \in EnvKeys :
       config' = IF /\ Truthy(config.use_solcast)
                    /\ ~Truthy(config.solcast_api_key)
                    /\ Truthy(api_key)
                 THEN [config EXCEPT !.solcast_api_key = api_key]
                 ELSE config
  /\ UNCHANGED <<sim, upd, opt>>

\* run_test_scenario(yaml_files[int(test_choice)-1], config) starts
RunTest == menu.at = "test" /\ LoadTestScenario

\* run_raceday_scenario(config) starts
RunRaceday == menu.at = "raceday" /\ LoadRaceday

\* an except clause that lets the error go on
ReportErrorAndLeave ==
  /\ menu.at \in {"test", "raceday"}
  /\ opt # None
  /\ opt.at = "raised"
  /\ menu' = [menu EXCEPT !.at = "exited", !.last = "error",
                          !.failures = Min(@ + 1, MaxFailures)]
  /\ opt' = None
  /\ UNCHANGED <<sim, config, upd>>

\* except Exception as e: print(f"Error running ...: {e}"); the loop goes on
ReportError ==
  /\ menu.at \in {"test", "raceday"}
  /\ opt # None
  /\ opt.at = "raised"
  /\ menu' = [menu EXCEPT !.at = "prompt", !.last = "error",
                          !.failures = Min(@ + 1, MaxFailures)]
  /\ opt' = None
  /\ UNCHANGED <<sim, config, upd>>

\* The steps of a run after its OptimizeConfig is built are those of
\* NextOptimize; no run started from the menu gets that far.
NextMenu ==
  \/ Quit
  \/ Interrupt
  \/ InvalidChoice
  \/ EnterConfigure
  \/ ConfigureUpdate
  \/ ConfigureReturn
  \/ ConfigureQuit
  \/ NoTestRun
  \/ ChooseTest
  \/ ChooseRaceday
  \/ RunTest
  \/ RunRaceday
  \/ BuildScenarioConfig
  \/ ReportError

SpecMenu == Init /\ [][NextMenu]_vars

----------------------------------------------------------------------------
(* Vocabulary of the properties *)

\* simulate was called (directly or by objective) and returned a SimResult
Returned == pc \in {"simulated", "scored"} /\ res.status = "returned"

\* the call was made with three arrays of one length N >= 1
WellFormed == Returned /\ Aligned /\ Len(v) >= 1

Cap == call.params.bat_max_energy

RECURSIVE Sigma(_, _, _)
\* sum of f[k] * c over 1 <= k <= n
Sigma(f, c, n) == IF n = 0 THEN 0 ELSE Sigma(f, c, n - 1) + f[n] * c

\* forward-Euler distance at Python index i: d0 + sum over k < i of v[k] * dt
Euler(i) == call.d0 + Sigma(v, call.dt, i)

\* Python index e is the first at which the battery trace is <= 0
FirstEmpty(e) ==
  /\ e \in 0..(Len(res.traces.Ebat_J) - 1)
  /\ res.traces.Ebat_J[e + 1] <= 0
  /\ \A j \in 1..e : res.traces.Ebat_J[j] > 0

EverEmpty == \E e \in 0..(Len(v) - 1) : FirstEmpty(e)

\* the battery trace reaches <= 0 and its final sample is <= 0, with the policy on
FreezeApplies ==
  call.stop_on_empty /\ EverEmpty /\ res.traces.Ebat_J[Len(v)] <= 0

NonDecreasing(s) == \A i \in 1..(Len(s) - 1) : s[i + 1] >= s[i]

----------------------------------------------------------------------------
(* C1 *)

\* C1: for arrays of one length N >= 1 and a positive capacity, every element of
\* the returned battery trace, and final_soc_J, lies in [0, capacity].
C1_BatteryWithinCapacity ==
  WellFormed =>
    /\ Len(res.traces.Ebat_J) = Len(v)
    /\ \A i \in 1..Len(v) :
         res.traces.Ebat_J[i] >= 0 /\ res.traces.Ebat_J[i] <= Cap
    /\ res.final_soc_J >= 0 /\ res.final_soc_J <= Cap

\* a run whose cumulative draw exceeds the capacity, and one sample is clipped to 0
C1_Witness ==
  /\ WellFormed
  /\ \E i \in 2..Len(v) :
       /\ res.traces.Ebat_J[i] = 0
       /\ Cap - Sigma(res.traces.E_net_J, 1, i - 1) < 0

----------------------------------------------------------------------------
(* C2 *)

\* C2: with stop_on_empty enabled, if e is the first index at which the battery
\* trace is <= 0 and the final battery sample is also <= 0, the returned distance
\* trace holds the forward-Euler values below e and the value d[e] from e on, and
\* final_distance_m = d[e].
C2_FrozenFromFirstEmpty ==
  WellFormed /\ FreezeApplies =>
    \A e \in 0..(Len(v) - 1) :
      FirstEmpty(e) =>
        /\ \A i \in 0..(Len(v) - 1) :
             res.traces.distance_m[i + 1] = IF i < e THEN Euler(i) ELSE Euler(e)
        /\ res.final_distance_m = Euler(e)

\* the 10-step run whose battery first reaches zero at step 3 and stays empty,
\* while the vehicle is asked to keep moving
C2_Witness ==
  /\ WellFormed /\ FreezeApplies
  /\ Len(v) = 10
  /\ FirstEmpty(3)
  /\ \A i \in 4..10 : res.traces.Ebat_J[i] <= 0 /\ v[i] > 0
  /\ res.final_distance_m < Euler(9)

----------------------------------------------------------------------------
(* C3 *)

\* C3: whenever no freeze applies (stop_on_empty disabled, or the battery trace
\* never <= 0, or <= 0 mid-run but the final sample > 0), the returned distance
\* trace is the forward-Euler trajectory d[i] = d0 + sum_{k<i} v[k]*dt, and
\* final_distance_m = d[N-1].
C3_EulerWhenNoFreeze ==
  WellFormed /\ ~FreezeApplies =>
    /\ Len(res.traces.distance_m) = Len(v)
    /\ \A i \in 0..(Len(v) - 1) : res.traces.distance_m[i + 1] = Euler(i)
    /\ res.final_distance_m = Euler(Len(v) - 1)

\* the policy is on, the battery is empty mid-run and has recovered by the final
\* sample, and the vehicle moved after the battery was empty
C3_Witness ==
  /\ WellFormed
  /\ call.stop_on_empty
  /\ \E e \in 1..(Len(v) - 2) : FirstEmpty(e) /\ Euler(e) < Euler(Len(v) - 1)
  /\ res.traces.Ebat_J[Len(v)] > 0

----------------------------------------------------------------------------
(* C4 *)

\* C4: surplus beyond full capacity is discarded: the battery trace obeys
\* Ebat[0] = capacity, Ebat[i+1] = clip(Ebat[i] - E_net[i], 0, capacity).
C4_StepwiseClippedRecurrence ==
  WellFormed =>
    /\ res.traces.Ebat_J[1] = Cap
    /\ \A i \in 1..(Len(v) - 1) :
         res.traces.Ebat_J[i + 1] =
           Min(Max(res.traces.Ebat_J[i] - res.traces.E_net_J[i], 0), Cap)

----------------------------------------------------------------------------
(* C5 *)

\* objective was called and returned a score
Scored == pc = "scored" /\ score.status = "returned" /\ WellFormed

\* C5: objective returns exactly -final_distance_m of simulate run with the default
\* freeze policy, plus 1e8 if final_soc_J <= 0, plus 100 * (0.1*capacity -
\* final_soc_J) if final_soc_J < 0.1*capacity, and nothing else; a profile ending
\* with at least 10% of capacity scores exactly -final_distance_m.
C5_ObjectiveScore ==
  Scored =>
    /\ call.stop_on_empty
    /\ res.final_distance_m =
         IF FreezeApplies
         THEN Euler(CHOOSE e \in 0..(Len(v) - 1) : FirstEmpty(e))
         ELSE Euler(Len(v) - 1)
    /\ score.value =
           (0 - res.final_distance_m)
         + (IF res.final_soc_J <= 0 THEN 100000000 ELSE 0)
         + (IF 10 * res.final_soc_J < Cap
            THEN 100 * ((Cap \div 10) - res.final_soc_J) ELSE 0)
    /\ (10 * res.final_soc_J >= Cap => score.value = 0 - res.final_distance_m)

\* a profile that ends above zero but below the 10% reserve, after moving
C5_Witness ==
  /\ Scored
  /\ res.final_soc_J > 0
  /\ 10 * res.final_soc_J < Cap
  /\ res.final_distance_m > call.d0
  /\ score.value > 0 - res.final_distance_m
  /\ score.value < 100000000 - res.final_distance_m

----------------------------------------------------------------------------
(* C6 *)

ZeroVelocity == \A i \in 1..Len(v) : v[i] = 0

\* C6: for N >= 1 and non-negative irradiance, velocity 0 at every timestep yields
\* a distance trace constant at d0, net power -solar_power at every timestep, and a
\* battery trace that is non-decreasing and stays at capacity, so no freeze occurs.
C6_ZeroVelocity ==
  WellFormed /\ ZeroVelocity /\ (\A i \in 1..Len(ghi) : ghi[i] >= 0) =>
    /\ \A i \in 1..Len(v) : res.traces.distance_m[i] = call.d0
    /\ res.final_distance_m = call.d0
    /\ \A i \in 1..Len(v) :
         res.traces.P_net_W[i] = 0 - res.traces.P_solar_W[i]
    /\ NonDecreasing(res.traces.Ebat_J)
    /\ \A i \in 1..Len(v) : res.traces.Ebat_J[i] = Cap
    /\ ~FreezeApplies

\* a standing vehicle in the sun on a slope, over several timesteps
C6_Witness ==
  /\ WellFormed /\ ZeroVelocity
  /\ Len(v) >= 3
  /\ call.stop_on_empty
  /\ call.d0 > 0
  /\ \A i \in 1..Len(v) : ghi[i] > 0 /\ theta_deg[i] > 0
  /\ \A i \in 1..Len(v) : res.traces.P_net_W[i] < 0

----------------------------------------------------------------------------
(* C7 *)

MonotoneDistance ==
  /\ NonDecreasing(res.traces.distance_m)
  /\ res.final_distance_m >= call.d0
  /\ (call.d0 >= 0 => res.final_distance_m >= 0)

\* C7 as stated: for all velocity sequences, when no freeze is triggered the
\* distance trace is non-decreasing, hence final_distance_m >= d0 and
\* final_distance_m >= 0 when d0 >= 0.
C7_MonotoneForAllVelocities ==
  WellFormed /\ ~FreezeApplies => MonotoneDistance

\* C7 as amended: the same for velocity sequences without a negative element.
C7_MonotoneForNonNegativeVelocities ==
  WellFormed /\ ~FreezeApplies /\ (\A i \in 1..Len(v) : v[i] >= 0) =>
    MonotoneDistance

\* an unfrozen run that moves, stands, and moves again
C7_Witness ==
  /\ WellFormed /\ ~FreezeApplies
  /\ Len(v) >= 3
  /\ \A i \in 1..Len(v) : v[i] >= 0
  /\ v[1] > 0 /\ v[2] = 0
  /\ res.traces.distance_m[2] > res.traces.distance_m[1]
  /\ res.traces.distance_m[3] = res.traces.distance_m[2]

----------------------------------------------------------------------------
(* C8 *)

\* N=10, dt=60, v=12 m/s at every step, zero grade, zero irradiance, d0=0, default
\* vehicle parameters
Scenario8 ==
  /\ WellFormed
  /\ Len(v) = 10
  /\ \A i \in 1..10 : v[i] = 12 /\ theta_deg[i] = 0 /\ ghi[i] = 0
  /\ call.dt = 60 /\ call.d0 = 0
  /\ call.params = VehicleParams

\* C8 as stated: that run returns final_distance_m = 10*60*12 = 7200 m, within a
\* small tolerance (here 1%).
C8_FinalDistance7200 ==
  Scenario8 => res.final_distance_m \in (7200 - 72)..(7200 + 72)

\* C8 as amended: that run returns final_distance_m = 9*60*12 = 6480 m: the
\* last timestep's velocity adds no distance.
C8_FinalDistance6480 ==
  Scenario8 => res.final_distance_m = 6480

C8_Witness ==
  /\ Scenario8
  /\ call.stop_on_empty
  /\ res.final_soc_J > 0

----------------------------------------------------------------------------
(* C9 *)

\* N=1, v=[15.0], dt=1800, grade=[0.0], irradiance=[800], default vehicle parameters
Scenario9 ==
  /\ WellFormed
  /\ v = <<15>> /\ theta_deg = <<0>> /\ ghi = <<800>>
  /\ call.dt = 1800
  /\ call.params = VehicleParams

\* C9 as stated: distance[0] = d0, final_distance_m = d0, and the battery decreases
\* by one step's net energy: final_soc_J = clip(capacity - E_net[0], 0, capacity).
C9_BatteryDropsByOneStep ==
  Scenario9 =>
    /\ res.traces.distance_m[1] = call.d0
    /\ res.final_distance_m = call.d0
    /\ res.final_soc_J = Min(Max(Cap - res.traces.E_net_J[1], 0), Cap)

\* C9 as amended: distance[0] = d0, final_distance_m = d0, and the battery does not
\* change: final_soc_J = capacity, whatever the step's net energy.
C9_BatteryStaysAtCapacity ==
  Scenario9 =>
    /\ res.traces.distance_m[1] = call.d0
    /\ res.final_distance_m = call.d0
    /\ res.traces.Ebat_J = <<Cap>>
    /\ res.final_soc_J = Cap

\* the single-step run, drawing net energy from the battery in its one step
C9_Witness ==
  /\ Scenario9
  /\ call.d0 > 0
  /\ res.traces.E_net_J[1] > 0

----------------------------------------------------------------------------
(* C10 *)

\* simulate was called (directly or by objective)
Called == pc \in {"simulated", "scored"}

\* C10: simulate fails with an error, and returns no SimResult, whenever the
\* velocity array is empty or the three arrays do not all have the same length.
C10_RaisesOnMalformedShapes ==
  Called /\ (Len(v) = 0 \/ ~Aligned) => res.status = "raised"

----------------------------------------------------------------------------
(* C15 *)

\* P_net of one timestep on flat road with velocity x and irradiance g
FlatNet(x, g) ==
  simulate(<<x>>, call.dt, call.d0, <<0>>, <<g>>, call.params, call.stop_on_empty)
    .traces.P_net_W[1]

\* a timestep on a descent driven forwards
Descent(i) == v[i] >= 0 /\ theta_deg[i] < 0

\* C15: at every timestep P_net is the three loss terms, each divided by
\* drive_eff and the grade term floored at zero, minus the undivided solar
\* power; on a descent with v >= 0 it equals the P_net of flat road at the
\* same velocity and irradiance.
C15_NetPowerPerTimestep ==
  WellFormed =>
    \A i \in 1..Len(v) :
      LET t   == res.traces
          eff == call.params.drive_eff
      IN  /\ t.P_net_W[i] = (t.P_rr_W[i] * 100) \div eff
                             + (t.P_drag_W[i] * 100) \div eff
                             + (Max(t.P_grade_W[i], 0) * 100) \div eff
                             - t.P_solar_W[i]
          /\ Descent(i) => t.P_net_W[i] = FlatNet(v[i], ghi[i])

\* a sunny descent driven forwards: the grade power is negative
C15_Witness ==
  /\ WellFormed
  /\ \E i \in 1..Len(v) :
       /\ Descent(i) /\ v[i] > 0 /\ ghi[i] > 0
       /\ res.traces.P_grade_W[i] < 0
       /\ res.traces.P_solar_W[i] > 0

----------------------------------------------------------------------------
(* C18 *)

\* the call was repeated with the last timestep changed
Repeated == prev # None /\ res.status = "returned" /\ prev.res.status = "returned"

\* C18: for N >= 2, two runs of simulate that differ only in v[N-1],
\* grade[N-1] or irradiance[N-1] return the same final_distance_m and the
\* same final_soc_J, and objective returns the same score for both.
C18_LastStepIgnored ==
  Repeated =>
    /\ res.final_distance_m = prev.res.final_distance_m
    /\ res.final_soc_J = prev.res.final_soc_J
    /\ pc = "scored" => score = prev.score

\* the second run's last timestep draws a different net power from a battery
\* that is neither full nor empty, after a distance was covered
C18_Witness ==
  /\ Repeated
  /\ pc = "scored"
  /\ res.traces.P_net_W[Len(v)] # prev.res.traces.P_net_W[Len(v)]
  /\ res.final_soc_J > 0 /\ res.final_soc_J < Cap
  /\ res.final_distance_m > call.d0

----------------------------------------------------------------------------
(* C13, C14 *)

\* update_param was called
Updated == upd # None

\* the parameters declared int or float
NumericParams == {"dt", "vmin", "vmax", "max_iter", "energy_penalty"}

\* C13: whenever the name is not one of the nine configuration parameters, or
\* the parameter is numeric and the value is not the text of a number,
\* update_param returns False and leaves every attribute of the object as it was.
C13_FailureLeavesConfigUnchanged ==
  ( /\ Updated
    /\ \/ upd.param_name \notin ParamNames
       \/ upd.param_name \in NumericParams /\ ~FloatText(upd.value) )
  => /\ upd.ret = "False"
     /\ config = upd.before

\* the annotation of each parameter the claim lists
DeclaredType ==
  [ dt |-> "float", vmin |-> "float", vmax |-> "float", energy_penalty |-> "float",
    max_iter |-> "int", use_solcast |-> "bool", method |-> "str" ]

\* ('false', '0', 'no', 'n')
FalseTexts == { <<"f", "a", "l", "s", "e">>, <<"0">>, <<"n", "o">>, <<"n">> }

\* the text is a valid value of the declared type
ValidText(type, t) ==
  CASE type = "float" -> FloatText(t)
    [] type = "int"   -> IntText(t)
    [] type = "bool"  -> lower(t) \in TrueTexts \cup FalseTexts
    [] type = "str"   -> TRUE

\* the text coerced to the declared type
Coerced(type, t) ==
  CASE type = "float" -> FloatValue(float(t))
    [] type = "int"   -> IntValue(int(t))
    [] type = "bool"  -> BoolValue(lower(t) \in TrueTexts)
    [] type = "str"   -> StrValue(t)

\* C14: from the default SimConfig and after any sequence of updates, an update
\* of a recognized key with the text of a valid value of its declared type
\* returns True and stores the value coerced to the declared type.
C14_ValidUpdateStoresDeclaredType ==
  ( /\ Updated
    /\ upd.param_name \in DOMAIN DeclaredType
    /\ ValidText(DeclaredType[upd.param_name], upd.value) )
  => /\ upd.ret = "True"
     /\ config[upd.param_name] = Coerced(DeclaredType[upd.param_name], upd.value)

----------------------------------------------------------------------------
(* C11, C12 *)

\* optimize_velocity has returned
Optimized == opt # None /\ opt.at \in {"optimized", "simulated", "returned"}

\* every element of the sequence lies within [vmin, vmax]
WithinBounds(x, cfg) == \A i \in 1..Len(x) : cfg.vmin <= x[i] /\ x[i] <= cfg.vmax

\* C11: for any configured search method, optimize_velocity returns a best
\* velocity sequence of length N = horizon/dt whose every element lies within
\* [vmin, vmax].
C11_BestWithinBoundsForAnyMethod ==
  Optimized =>
    /\ Len(opt.best.best_vs) = opt.cfg.horizon \div opt.cfg.dt
    /\ WithinBounds(opt.best.best_vs, opt.cfg)

\* C11, amended: the best velocity sequence has length N = int(horizon/dt)
\* for any method, and every element lies within [vmin, vmax] when the method
\* is not "Nelder-Mead", the one method that is handed no bounds.
C11_BestWithinBoundsWhenBoundsPassed ==
  Optimized =>
    /\ Len(opt.best.best_vs) = opt.cfg.horizon \div opt.cfg.dt
    /\ opt.cfg.method # NelderMeadText => WithinBounds(opt.best.best_vs, opt.cfg)

\* a bounded method moved from the initial guess to a point with an element at vmax
C11_Witness ==
  /\ Optimized
  /\ opt.cfg.method # NelderMeadText
  /\ opt.bounds # NoBounds
  /\ opt.iters >= 1
  /\ \E i \in 1..opt.N : opt.best.best_vs[i] = opt.cfg.vmax
  /\ \E i \in 1..opt.N : opt.best.best_vs[i] # (opt.cfg.vmin + opt.cfg.vmax) \div 2

\* C12: a call of optimize_velocity starts the minimizer exactly once; when
\* the minimizer stops, converged or not, the call does not raise, it returns
\* the minimizer's point and that point's objective value, and it has warned
\* when the minimizer did not converge.
C12_OneAttemptWarnsAndReturns ==
  /\ (opt # None /\ opt.at \in {"minimizing", "optimized", "simulated", "returned"})
       => opt.calls = 1
  /\ (opt # None /\ opt.result # None) =>
       /\ Optimized
       /\ opt.best.best_vs = opt.result.x
       /\ opt.best.best_obj = opt.result.fun
       /\ opt.best.best_obj =
            objective(opt.best.best_vs, opt.cfg.dt, opt.cfg.d0, theta_deg, ghi,
                      opt.params).value
       /\ opt.best.warned = ~opt.result.success

\* the iteration budget ran out without convergence after the minimizer had moved
C12_Witness ==
  /\ Optimized
  /\ ~opt.result.success
  /\ opt.iters = opt.cfg.max_iter
  /\ opt.best.warned
  /\ \E i \in 1..opt.N : opt.best.best_vs[i] # (opt.cfg.vmin + opt.cfg.vmax) \div 2

----------------------------------------------------------------------------
(* C16 *)

\* a scenario run whose data were loaded
ScenarioRun ==
  /\ opt # None
  /\ opt.caller \in Scenarios
  /\ opt.exc # "FileNotFoundError"
  /\ Len(theta_deg) >= 1 /\ Len(theta_deg) = Len(ghi)

\* C16: a run of run_test_scenario or run_raceday_scenario on well-formed data
\* does not raise: it builds the optimizer configuration, calls
\* optimize_velocity once, runs one final simulate on the best profile and
\* returns that result.
C16_ScenarioRunsToResult ==
  ScenarioRun =>
    /\ opt.at # "raised"
    /\ opt.at \in {"simulated", "returned"} =>
         /\ opt.calls = 1
         /\ v = opt.best.best_vs
         /\ res = simulate(v, opt.dt, opt.d0, theta_deg, ghi, opt.params, TRUE)

----------------------------------------------------------------------------
(* C17 *)

\* the last choice was a scenario run that failed and was reported
FailureReported == menu.last = "error"

\* the loop is left only through a quit choice or an interrupt
LeavesOnlyOnQuit == menu.at = "exited" => menu.last \in {"quit", "interrupt"}

====
